---- MODULE Spec2Model ----
(***************************************************************************)
(* A model of the double-buffered terminal Screen of src/src/lib.rs.       *)
(*                                                                         *)
(* Grids are sequences of cells; the Rust index i is the TLA+ index i + 1. *)
(* u16 arithmetic keeps its width: an operation that leaves 0..65535       *)
(* panics when the build has overflow checks (the debug profile) and wraps *)
(* modulo 2^16 when it has not (the release profile).  An out-of-bounds    *)
(* slice index panics in every build.  A panic ends the program.           *)
(***************************************************************************)
EXTENDS Integers, Sequences, FiniteSets, TLC

VARIABLES
    new_screen,             \* front grid (Screen.new_screen)
    cur_screen,             \* back grid (Screen.cur_screen)
    width,
    height,
    cursor,
    stored_cursor,
    force_redraw,
    fg_color,
    bg_color,
    new_cursor_style,
    cur_cursor_style,
    new_cursor_visibility,
    cur_cursor_visibility,
    windows,
    overflow_checks,        \* the build profile: TRUE = u16 overflow panics
    panicked,               \* the program has panicked
    terminal,               \* the physical terminal behind the backend
    calls,                  \* backend calls issued by the latest show()
    last,                   \* the latest public call: [op, ok, arg, prev]
    nops,                   \* public calls left to this behaviour
    nerrors                 \* backend errors left to this behaviour

screen_vars == <<new_screen, cur_screen, width, height, cursor, stored_cursor,
                 force_redraw, fg_color, bg_color, new_cursor_style,
                 cur_cursor_style, new_cursor_visibility,
                 cur_cursor_visibility, windows>>

style_vars == <<new_cursor_style, cur_cursor_style, new_cursor_visibility,
                cur_cursor_visibility>>

color_vars == <<fg_color, bg_color>>

env_vars == <<overflow_checks, terminal, calls, nerrors>>

vars == <<screen_vars, overflow_checks, panicked, terminal, calls, last, nops,
          nerrors>>

---------------------------------------------------------------------------
(* Bounds of the model *)

\* Number of public calls in one behaviour of Spec.
MaxOps == 3

\* Number of backend calls that return an error in one behaviour.
MaxErrors == 1

\* Largest value of a u16.
U16Max == 65535

\* u16 arguments tried by the callers: small values and the largest u16
\* (which every clamp cuts to the extent that is left).
Args16 == {0, 1, 2, U16Max}

\* Terminal sizes reported at construction in Spec.
InitSizes == {<<3, 2>>}

\* Sizes passed to resize: the same size, a narrower and taller one, a
\* wider one, a single cell and a grid without columns.
ResizeSizes == {<<3, 2>>, <<2, 3>>, <<4, 2>>, <<1, 1>>, <<0, 2>>}

Colors == {"Reset", "Red"}

CursorStyles == {"DefaultUserShape", "SteadyBar"}

\* Texts passed to print (a character is a one-character string).
Texts == { <<"a">>, <<"a", "b", "\n", "c", "d", "e">>,
           <<"a", "b", "c", "d", "e", "f", "g">> }

Chars == {"a", "\n"}

ClearTypes == {"All", "CurrentLine", "UntilNewline", "Current"}

---------------------------------------------------------------------------
(* Values *)

Min(a, b) == IF a <= b THEN a ELSE b

\* A u16 result that fits; otherwise the operation overflows.
fits(v) == v >= 0 /\ v <= U16Max

\* The wrapped (release build) value of a u16 result.
wrap(v) == v % (U16Max + 1)

Point(x, y) == [x |-> x, y |-> y]

ZERO == Point(0, 0)

WindowBounds(x, y, w, h) == [x |-> x, y |-> y, width |-> w, height |-> h]

Cell(fg, bg, c) == [fg_color |-> fg, bg_color |-> bg, c |-> c]

EMPTY_CHAR == " "

EMPTY_CELL == Cell("Reset", "Reset", EMPTY_CHAR)

\* vec![v; n]
filled(n, v) == [i \in 1..n |-> v]

\* slice[from..to].fill(v), Rust indices, from <= to <= len
fill_range(grid, from, to, v) ==
    [i \in 1..Len(grid) |-> IF i > from /\ i <= to THEN v ELSE grid[i]]

\* The record of a public call: its name, whether it returned (without a
\* panic and, for show, without an error), an argument, and the call before.
Call(op, ok, arg) ==
    [op |-> op, ok |-> ok, arg |-> arg, prev |-> [op |-> last.op, ok |-> last.ok]]

NoCall == [op |-> "new", ok |-> TRUE, arg |-> << >>,
           prev |-> [op |-> "none", ok |-> TRUE]]

---------------------------------------------------------------------------
(* Windows *)

is_base_window == Len(windows) > 0

get_current_window ==
    IF Len(windows) > 0 THEN windows[Len(windows)]
    ELSE WindowBounds(0, 0, width, height)

get_size == <<get_current_window.width, get_current_window.height>>

\* The clamped bounds begin_window pushes, and whether computing them
\* overflows a u16.
begin_window_bounds(x, y, w, h) ==
    LET outer == get_current_window
        ax == outer.x + x
        bw == outer.width - 1
        x1 == Min(wrap(ax), wrap(bw))
        ay == outer.y + y
        bh == outer.height - 1
        y1 == Min(wrap(ay), wrap(bh))
        dw == outer.width - x1
        width1 == Min(w, wrap(dw))
        dh == outer.height - x1
        height1 == Min(h, wrap(dh))
    IN  [overflow |-> ~(fits(ax) /\ fits(bw) /\ fits(ay) /\ fits(bh)
                        /\ fits(dw) /\ fits(dh)),
         window |-> WindowBounds(x1, y1, width1, height1)]

\* A panic before the call has changed anything.
panic_at_entry(op, arg) ==
    /\ panicked' = TRUE
    /\ last' = Call(op, FALSE, arg)
    /\ nops' = nops - 1
    /\ UNCHANGED <<screen_vars, env_vars>>

returns(op, arg) ==
    /\ last' = Call(op, TRUE, arg)
    /\ nops' = nops - 1
    /\ UNCHANGED <<panicked, env_vars>>

enabled == ~panicked /\ nops > 0

begin_window(x, y, w, h) ==
    /\ enabled
    /\ LET r == begin_window_bounds(x, y, w, h) IN
       IF r.overflow /\ overflow_checks
       THEN panic_at_entry("begin_window", <<>>)
       ELSE /\ cursor' = ZERO
            /\ stored_cursor' = ZERO
            /\ windows' = Append(windows, r.window)
            /\ returns("begin_window", <<>>)
            /\ UNCHANGED <<new_screen, cur_screen, width, height, force_redraw, style_vars, color_vars>>

\* The cursor and stored cursor end_window leaves, and whether the sums
\* overflow a u16.
end_window_points ==
    LET window == windows[Len(windows)]
        cx == window.x + cursor.x
        cy == window.y + cursor.y
        sx == window.x + stored_cursor.x
        sy == window.y + stored_cursor.y
    IN  [overflow |-> ~(fits(cx) /\ fits(cy) /\ fits(sx) /\ fits(sy)),
         cursor |-> Point(wrap(cx), wrap(cy)),
         stored_cursor |-> Point(wrap(sx), wrap(sy))]

end_window ==
    /\ enabled
    /\ IF Len(windows) = 0
       THEN /\ returns("end_window", <<>>)
            /\ UNCHANGED screen_vars
       ELSE LET r == end_window_points IN
            IF r.overflow /\ overflow_checks
            THEN /\ panicked' = TRUE
                 /\ last' = Call("end_window", FALSE, <<>>)
                 /\ nops' = nops - 1
                 /\ windows' = SubSeq(windows, 1, Len(windows) - 1)
                 /\ UNCHANGED <<new_screen, cur_screen, width, height, cursor, stored_cursor, force_redraw, style_vars, color_vars, env_vars>>
            ELSE /\ windows' = SubSeq(windows, 1, Len(windows) - 1)
                 /\ cursor' = r.cursor
                 /\ stored_cursor' = r.stored_cursor
                 /\ returns("end_window", <<>>)
                 /\ UNCHANGED <<new_screen, cur_screen, width, height, force_redraw, style_vars, color_vars>>

---------------------------------------------------------------------------
(* Cursor *)

\* x.clamp(0, max)
clamp(x, lo, hi) == IF x < lo THEN lo ELSE IF x > hi THEN hi ELSE x

move_to(x, y) ==
    /\ enabled
    /\ LET window == get_current_window
           mw == window.width - 1
           mh == window.height - 1
       IN  IF ~(fits(mw) /\ fits(mh)) /\ overflow_checks
           THEN /\ panicked' = TRUE
                /\ last' = Call("move_to", FALSE, <<>>)
                /\ nops' = nops - 1
                \* cursor.x is assigned before window.height - 1 is computed
                /\ cursor' = IF fits(mw)
                             THEN Point(clamp(x, 0, mw), cursor.y)
                             ELSE cursor
                /\ UNCHANGED <<new_screen, cur_screen, width, height, stored_cursor, force_redraw, windows, style_vars, color_vars, env_vars>>
           ELSE /\ cursor' = Point(clamp(x, 0, wrap(mw)), clamp(y, 0, wrap(mh)))
                /\ returns("move_to", <<>>)
                /\ UNCHANGED <<new_screen, cur_screen, width, height, stored_cursor, force_redraw, windows, style_vars, color_vars>>

save_cursor ==
    /\ enabled
    /\ stored_cursor' = cursor
    /\ returns("save_cursor", <<>>)
    /\ UNCHANGED <<new_screen, cur_screen, width, height, cursor, force_redraw, windows, style_vars, color_vars>>

restore_cursor ==
    /\ enabled
    /\ LET mw == get_size[1] - 1
           mh == get_size[2] - 1
       IN  IF ~(fits(mw) /\ fits(mh)) /\ overflow_checks
           THEN panic_at_entry("restore_cursor", <<>>)
           ELSE /\ cursor' = Point(Min(stored_cursor.x, wrap(mw)),
                                   Min(stored_cursor.y, wrap(mh)))
                /\ returns("restore_cursor", <<>>)
                /\ UNCHANGED <<new_screen, cur_screen, width, height, stored_cursor, force_redraw, windows, style_vars, color_vars>>

---------------------------------------------------------------------------
(* Clearing *)

\* The row loop of clear(All) over a sub-window: rows y .. yend - 1.
RECURSIVE clear_rows(_, _, _, _)
clear_rows(grid, window, y, yend) ==
    IF y >= yend THEN [panic |-> FALSE, grid |-> grid]
    ELSE LET index == y * width + window.x IN
         IF index + window.width > Len(grid)
         THEN [panic |-> TRUE, grid |-> grid]
         ELSE clear_rows(fill_range(grid, index, index + window.width, EMPTY_CELL),
                         window, y + 1, yend)

clear_all ==
    LET window == get_current_window IN
    IF is_base_window
    THEN [panic |-> FALSE, grid |-> filled(Len(new_screen), EMPTY_CELL)]
    ELSE clear_rows(new_screen, window, window.y, window.y + window.height)

clear_current_line ==
    LET window == get_current_window
        row == window.y + cursor.y
        start == wrap(row) * width
        end == start + window.width
    IN  IF (~fits(row) /\ overflow_checks) \/ end > Len(new_screen)
        THEN [panic |-> TRUE, grid |-> new_screen]
        ELSE [panic |-> FALSE, grid |-> fill_range(new_screen, start, end, EMPTY_CELL)]

clear_until_newline ==
    LET window == get_current_window
        row == window.y + cursor.y
        line_start == wrap(row) * width + window.x
        start == line_start + cursor.x
        end == line_start + window.width
    IN  IF (~fits(row) /\ overflow_checks) \/ start > end \/ end > Len(new_screen)
        THEN [panic |-> TRUE, grid |-> new_screen]
        ELSE [panic |-> FALSE, grid |-> fill_range(new_screen, start, end, EMPTY_CELL)]

clear_current ==
    LET window == get_current_window
        row == window.y + cursor.y
        col == window.x + cursor.x
        index == wrap(row) * width + wrap(col)
    IN  IF (~(fits(row) /\ fits(col)) /\ overflow_checks) \/ index >= Len(new_screen)
        THEN [panic |-> TRUE, grid |-> new_screen]
        ELSE [panic |-> FALSE, grid |-> fill_range(new_screen, index, index + 1, EMPTY_CELL)]

clear_result(ty) ==
    CASE ty = "All" -> clear_all
      [] ty = "CurrentLine" -> clear_current_line
      [] ty = "UntilNewline" -> clear_until_newline
      [] ty = "Current" -> clear_current

clear(ty) ==
    /\ enabled
    /\ LET r == clear_result(ty) IN
       /\ new_screen' = r.grid
       /\ panicked' = r.panic
       /\ last' = Call("clear", ~r.panic, ty)
    /\ nops' = nops - 1
    /\ UNCHANGED <<cur_screen, width, height, cursor, stored_cursor, force_redraw,
                   windows, style_vars, color_vars, env_vars>>

---------------------------------------------------------------------------
(* Printing *)

\* The closure of print applied to the characters of msg in order; x, y and
\* the window's fields are usize there, so nothing overflows.
RECURSIVE print_chars(_, _, _, _, _)
print_chars(msg, window, x, y, grid) ==
    IF msg = <<>> THEN [panic |-> FALSE, x |-> x, y |-> y, grid |-> grid]
    ELSE IF Head(msg) = "\n"
    THEN print_chars(Tail(msg), window, window.x,
                     IF y + 1 >= window.x + window.height THEN window.y ELSE y + 1,
                     grid)
    ELSE LET index == y * width + x IN
         IF index >= Len(grid)
         THEN [panic |-> TRUE, x |-> x, y |-> y, grid |-> grid]
         ELSE LET written == [grid EXCEPT ![index + 1] =
                                  Cell(fg_color, bg_color, Head(msg))]
                  wrapx == x + 1 >= window.x + window.width
                  wrapy == y + 1 >= window.y + window.height
              IN  print_chars(Tail(msg), window,
                              IF wrapx THEN window.x ELSE x + 1,
                              IF wrapx THEN (IF wrapy THEN window.y ELSE y + 1)
                              ELSE y,
                              written)

\* print(message): the grid it leaves, the cursor it stores, and whether it
\* panics (an index out of bounds, or x or y not fitting a u16).
print_result(msg) ==
    LET r == print_chars(msg, get_current_window, cursor.x, cursor.y, new_screen)
        unwrap_fails == ~r.panic /\ ~(fits(r.x) /\ fits(r.y))
    IN  [panic |-> r.panic \/ unwrap_fails,
         grid |-> r.grid,
         cursor |-> IF r.panic \/ unwrap_fails THEN cursor ELSE Point(r.x, r.y)]

print(msg) ==
    /\ enabled
    /\ LET r == print_result(msg) IN
       /\ new_screen' = r.grid
       /\ cursor' = r.cursor
       /\ panicked' = r.panic
       /\ last' = Call("print", ~r.panic, msg)
    /\ nops' = nops - 1
    /\ UNCHANGED <<cur_screen, width, height, stored_cursor, force_redraw,
                   windows, style_vars, color_vars, env_vars>>

\* print_char(c): the grid and cursor it leaves, and whether it panics.
print_char_result(c) ==
    LET window == get_current_window
        y1 == cursor.y + 1
        ywrapped == IF wrap(y1) >= window.height THEN 0 ELSE wrap(y1)
    IN  IF c = "\n"
        THEN IF ~fits(y1) /\ overflow_checks
             THEN [panic |-> TRUE, grid |-> new_screen, cursor |-> Point(0, cursor.y)]
             ELSE [panic |-> FALSE, grid |-> new_screen, cursor |-> Point(0, ywrapped)]
        ELSE LET row == window.y + cursor.y
                 col == window.x + cursor.x
                 index == wrap(row) * width + wrap(col)
                 x1 == cursor.x + 1
                 written == [new_screen EXCEPT ![index + 1] =
                                 Cell(fg_color, bg_color, c)]
             IN  IF (~(fits(row) /\ fits(col)) /\ overflow_checks)
                    \/ index >= Len(new_screen)
                 THEN [panic |-> TRUE, grid |-> new_screen, cursor |-> cursor]
                 ELSE IF ~fits(x1) /\ overflow_checks
                 THEN [panic |-> TRUE, grid |-> written, cursor |-> cursor]
                 ELSE IF wrap(x1) < window.width
                 THEN [panic |-> FALSE, grid |-> written,
                       cursor |-> Point(wrap(x1), cursor.y)]
                 ELSE IF ~fits(y1) /\ overflow_checks
                 THEN [panic |-> TRUE, grid |-> written, cursor |-> Point(0, cursor.y)]
                 ELSE [panic |-> FALSE, grid |-> written, cursor |-> Point(0, ywrapped)]

print_char(c) ==
    /\ enabled
    /\ LET r == print_char_result(c) IN
       /\ new_screen' = r.grid
       /\ cursor' = r.cursor
       /\ panicked' = r.panic
       /\ last' = Call("print_char", ~r.panic, c)
    /\ nops' = nops - 1
    /\ UNCHANGED <<cur_screen, width, height, stored_cursor, force_redraw,
                   windows, style_vars, color_vars, env_vars>>

---------------------------------------------------------------------------
(* Colors, cursor shape and visibility *)

set_colors(fg, bg) ==
    /\ enabled
    /\ fg_color' = fg
    /\ bg_color' = bg
    /\ returns("set_colors", <<>>)
    /\ UNCHANGED <<new_screen, cur_screen, width, height, cursor, stored_cursor,
                   force_redraw, windows, style_vars>>

clear_colors ==
    /\ enabled
    /\ fg_color' = "Reset"
    /\ bg_color' = "Reset"
    /\ returns("clear_colors", <<>>)
    /\ UNCHANGED <<new_screen, cur_screen, width, height, cursor, stored_cursor,
                   force_redraw, windows, style_vars>>

set_cursor_style(style) ==
    /\ enabled
    /\ new_cursor_style' = style
    /\ returns("set_cursor_style", <<>>)
    /\ UNCHANGED <<new_screen, cur_screen, width, height, cursor, stored_cursor,
                   force_redraw, windows, color_vars, cur_cursor_style,
                   new_cursor_visibility, cur_cursor_visibility>>

set_cursor_visibility(visibility) ==
    /\ enabled
    /\ new_cursor_visibility' = visibility
    /\ returns("set_cursor_visibility", <<>>)
    /\ UNCHANGED <<new_screen, cur_screen, width, height, cursor, stored_cursor,
                   force_redraw, windows, color_vars, new_cursor_style,
                   cur_cursor_style, cur_cursor_visibility>>

---------------------------------------------------------------------------
(* Resize *)

\* resized_buffer with the last common row left out of the copy.
resized_buffer_short(w, h) ==
    LET common_width == Min(width, w)
        common_height == Min(height, h)
    IN  [k \in 1..(w * h) |->
            LET i == (k - 1) \div w
                j == (k - 1) % w
            IN  IF i < common_height - 1 /\ j < common_width
                THEN new_screen[i * width + j + 1]
                ELSE EMPTY_CELL]

\* The new front buffer of resize: the common top-left rectangle of the old
\* front grid, copied row by row into a buffer of EMPTY cells.
resized_buffer(w, h) ==
    LET common_width == Min(width, w)
        common_height == Min(height, h)
    IN  [k \in 1..(w * h) |->
            LET i == (k - 1) \div w
                j == (k - 1) % w
            IN  IF i < common_height /\ j < common_width
                THEN new_screen[i * width + j + 1]
                ELSE EMPTY_CELL]

\* What the terminal shows that nobody wrote.
GarbageCell == Cell("Red", "Red", "#")

\* The physical terminal after its window changed to w x h: what it shows
\* then is the terminal's business, here every cell is the same cell.
TerminalFills == {GarbageCell}

Terminal(cells) == [cells |-> cells, pos |-> 0, fg |-> "Reset", bg |-> "Reset"]

resize(w, h, fill) ==
    /\ enabled
    /\ width' = w
    /\ height' = h
    /\ new_screen' = resized_buffer(w, h)
    /\ cur_screen' = resized_buffer(w, h)
    /\ terminal' = Terminal(filled(w * h, fill))
    /\ LET mw == w - 1
           mh == h - 1
           clamped == ~overflow_checks \/ (fits(mw) /\ fits(mh))
       IN  /\ cursor' =
                IF ~fits(mw) /\ overflow_checks THEN cursor
                ELSE IF ~fits(mh) /\ overflow_checks
                THEN Point(Min(cursor.x, mw), cursor.y)
                ELSE Point(Min(cursor.x, wrap(mw)), Min(cursor.y, wrap(mh)))
           /\ stored_cursor' =
                IF clamped
                THEN Point(Min(stored_cursor.x, wrap(mw)),
                           Min(stored_cursor.y, wrap(mh)))
                ELSE stored_cursor
           /\ force_redraw' = IF clamped THEN TRUE ELSE force_redraw
           /\ panicked' = ~clamped
           /\ last' = Call("resize", clamped, <<w, h>>)
    /\ nops' = nops - 1
    /\ UNCHANGED <<windows, style_vars, color_vars, overflow_checks, calls,
                   nerrors>>

---------------------------------------------------------------------------
(* The backend and the terminal *)

SetColors(fg, bg) == [op |-> "SetColors", fg |-> fg, bg |-> bg]

MoveTo(x, y) == [op |-> "MoveTo", x |-> x, y |-> y]

QueuePrint(text) == [op |-> "Print", text |-> text]

SetCursorStyle(style) == [op |-> "SetCursorStyle", style |-> style]

ShowHide(visibility) == [op |-> IF visibility THEN "Show" ELSE "Hide"]

Flush == [op |-> "Flush"]

\* The terminal writes a text from its cursor on, over consecutive
\* row-major positions, in its current colors.
RECURSIVE terminal_write(_, _)
terminal_write(t, text) ==
    IF text = <<>> THEN t
    ELSE terminal_write(
            [t EXCEPT !.cells = IF t.pos < Len(t.cells)
                                THEN [t.cells EXCEPT ![t.pos + 1] =
                                         Cell(t.fg, t.bg, Head(text))]
                                ELSE t.cells,
                      !.pos = t.pos + 1],
            Tail(text))

terminal_call(t, call) ==
    CASE call.op = "SetColors" -> [t EXCEPT !.fg = call.fg, !.bg = call.bg]
      [] call.op = "MoveTo" -> [t EXCEPT !.pos = call.y * width + call.x]
      [] call.op = "Print" -> terminal_write(t, call.text)
      [] OTHER -> t

RECURSIVE terminal_calls(_, _)
terminal_calls(t, cs) ==
    IF cs = <<>> THEN t
    ELSE terminal_calls(terminal_call(t, Head(cs)), Tail(cs))

---------------------------------------------------------------------------
(* Rendering *)

\* The characters of new_screen[start..i]
run_text(start, i) == [k \in 1..(i - start) |-> new_screen[start + k].c]

\* print_run with the column and the row of its MoveTo exchanged.
print_run_swapped(start, i) ==
    IF start < i
    THEN << MoveTo(wrap(start \div width), wrap(start % width)),
            QueuePrint(run_text(start, i)) >>
    ELSE << >>

\* The flush of a pending run: nothing when the run is empty.
print_run(start, i) ==
    IF start < i
    THEN << MoveTo(wrap(start % width), wrap(start \div width)),
            QueuePrint(run_text(start, i)) >>
    ELSE << >>

\* whole_screen_loop starting a new run on a foreground change only.
RECURSIVE whole_screen_loop_fg(_, _, _, _, _, _, _)
whole_screen_loop_fg(x, y, i, start, fg, bg, out) ==
    IF ~(y < height) THEN [panic |-> FALSE, calls |-> out \o print_run(start, i)]
    ELSE IF i >= Len(new_screen) THEN [panic |-> TRUE, calls |-> out]
    ELSE LET new_cell == new_screen[i + 1]
             x1 == IF x + 1 >= width THEN 0 ELSE x + 1
             y1 == IF x + 1 >= width THEN y + 1 ELSE y
         IN  IF new_cell.fg_color # fg
             THEN whole_screen_loop_fg(x1, y1, i + 1, i,
                      new_cell.fg_color, new_cell.bg_color,
                      out \o print_run(start, i)
                          \o <<SetColors(new_cell.fg_color, new_cell.bg_color)>>)
             ELSE whole_screen_loop_fg(x1, y1, i + 1, start, fg, bg, out)

\* The scan of print_whole_screen from cell i on.
RECURSIVE whole_screen_loop(_, _, _, _, _, _, _)
whole_screen_loop(x, y, i, start, fg, bg, out) ==
    IF ~(y < height) THEN [panic |-> FALSE, calls |-> out \o print_run(start, i)]
    ELSE IF i >= Len(new_screen) THEN [panic |-> TRUE, calls |-> out]
    ELSE LET new_cell == new_screen[i + 1]
             x1 == IF x + 1 >= width THEN 0 ELSE x + 1
             y1 == IF x + 1 >= width THEN y + 1 ELSE y
         IN  IF new_cell.fg_color # fg \/ new_cell.bg_color # bg
             THEN whole_screen_loop(x1, y1, i + 1, i,
                      new_cell.fg_color, new_cell.bg_color,
                      out \o print_run(start, i)
                          \o <<SetColors(new_cell.fg_color, new_cell.bg_color)>>)
             ELSE whole_screen_loop(x1, y1, i + 1, start, fg, bg, out)

print_whole_screen ==
    whole_screen_loop(0, 0, 0, 0, "Reset", "Reset", <<SetColors("Reset", "Reset")>>)

\* diff_loop going on with the pending run over a cell that equals the
\* back cell.
RECURSIVE diff_loop_through(_, _, _, _, _, _, _)
diff_loop_through(x, y, i, start, fg, bg, out) ==
    IF ~(y < height) THEN [panic |-> FALSE, calls |-> out \o print_run(start, i)]
    ELSE IF i >= Len(new_screen) \/ i >= Len(cur_screen)
    THEN [panic |-> TRUE, calls |-> out]
    ELSE LET new_cell == new_screen[i + 1]
             cur_cell == cur_screen[i + 1]
             x1 == IF x + 1 >= width THEN 0 ELSE x + 1
             y1 == IF x + 1 >= width THEN y + 1 ELSE y
         IN  IF new_cell = cur_cell
             THEN diff_loop_through(x1, y1, i + 1, start, fg, bg, out)
             ELSE IF new_cell.fg_color # fg \/ new_cell.bg_color # bg
             THEN diff_loop_through(x1, y1, i + 1, i,
                      new_cell.fg_color, new_cell.bg_color,
                      out \o print_run(start, i)
                          \o <<SetColors(new_cell.fg_color, new_cell.bg_color)>>)
             ELSE diff_loop_through(x1, y1, i + 1, start, fg, bg, out)

\* The scan of show's incremental branch from cell i on.
RECURSIVE diff_loop(_, _, _, _, _, _, _)
diff_loop(x, y, i, start, fg, bg, out) ==
    IF ~(y < height) THEN [panic |-> FALSE, calls |-> out \o print_run(start, i)]
    ELSE IF i >= Len(new_screen) \/ i >= Len(cur_screen)
    THEN [panic |-> TRUE, calls |-> out]
    ELSE LET new_cell == new_screen[i + 1]
             cur_cell == cur_screen[i + 1]
             x1 == IF x + 1 >= width THEN 0 ELSE x + 1
             y1 == IF x + 1 >= width THEN y + 1 ELSE y
         IN  IF new_cell = cur_cell
             THEN diff_loop(x1, y1, i + 1, i + 1, fg, bg, out \o print_run(start, i))
             ELSE IF new_cell.fg_color # fg \/ new_cell.bg_color # bg
             THEN diff_loop(x1, y1, i + 1, i,
                      new_cell.fg_color, new_cell.bg_color,
                      out \o print_run(start, i)
                          \o <<SetColors(new_cell.fg_color, new_cell.bg_color)>>)
             ELSE diff_loop(x1, y1, i + 1, start, fg, bg, out)

show_incremental ==
    diff_loop(0, 0, 0, 0, "Reset", "Reset", <<SetColors("Reset", "Reset")>>)

\* show_content without the force_redraw branch.
show_content_incremental == show_incremental

\* The content calls of show: print_whole_screen when force_redraw is set.
show_content == IF force_redraw THEN print_whole_screen ELSE show_incremental

\* style_calls telling the terminal the cursor shape in every show().
style_calls_always == <<SetCursorStyle(new_cursor_style)>>

style_calls ==
    IF new_cursor_style # cur_cursor_style
    THEN <<SetCursorStyle(new_cursor_style)>> ELSE << >>

visibility_calls ==
    IF new_cursor_visibility # cur_cursor_visibility
    THEN <<ShowHide(new_cursor_visibility)>> ELSE << >>

\* Every backend call of a show() that neither fails nor panics, in order.
show_calls ==
    show_content.calls \o style_calls \o visibility_calls
        \o <<MoveTo(cursor.x, cursor.y), Flush>>

\* show_sync leaving the force-redraw flag as it is.
show_sync_keeps_flag(failed) ==
    IF failed = 0 THEN [cur_screen |-> new_screen, force_redraw |-> force_redraw]
    ELSE [cur_screen |-> cur_screen, force_redraw |-> force_redraw]

\* show_sync leaving the back grid as it is.
show_sync_keeps_back(failed) ==
    IF failed = 0 THEN [cur_screen |-> cur_screen, force_redraw |-> FALSE]
    ELSE [cur_screen |-> cur_screen, force_redraw |-> force_redraw]

\* The back grid and the force-redraw flag after a show() whose backend call
\* number failed has failed (0: none has); both are assigned after the
\* last backend call only.
show_sync(failed) ==
    IF failed = 0 THEN [cur_screen |-> new_screen, force_redraw |-> FALSE]
    ELSE [cur_screen |-> cur_screen, force_redraw |-> force_redraw]

\* show_issued going on after the call that failed.
show_issued_all(all, failed) == all

\* The backend calls issued by a show() that would issue all, when its
\* call number failed returns an error: the ? operator returns at once.
show_issued(all, failed) ==
    IF failed = 0 THEN all ELSE SubSeq(all, 1, failed)

show_mode == IF force_redraw THEN "full" ELSE "incremental"

\* show() once its scan has made the content calls: backend call number
\* failed returns an error (0: every call succeeds).
show_returns(content, failed) ==
    LET n == Len(content)
        all == content \o style_calls \o visibility_calls
                   \o <<MoveTo(cursor.x, cursor.y), Flush>>
        done == IF failed = 0 THEN Len(all) ELSE failed - 1
    IN  /\ failed <= Len(all)
        /\ calls' = show_issued(all, failed)
        /\ terminal' = terminal_calls(terminal, SubSeq(all, 1, done))
        /\ cur_cursor_style' =
             IF done > n THEN new_cursor_style ELSE cur_cursor_style
        /\ cur_cursor_visibility' =
             IF done > n + Len(style_calls)
             THEN new_cursor_visibility ELSE cur_cursor_visibility
        /\ cur_screen' = show_sync(failed).cur_screen
        /\ force_redraw' = show_sync(failed).force_redraw
        /\ last' = Call("show", failed = 0, [mode |-> show_mode, failed |-> failed])
        /\ nops' = nops - 1
        /\ nerrors' = IF failed = 0 THEN nerrors ELSE nerrors - 1
        /\ UNCHANGED <<new_screen, width, height, cursor, stored_cursor, windows,
                       color_vars, new_cursor_style, new_cursor_visibility,
                       overflow_checks, panicked>>

\* show() once its scan has indexed a grid out of bounds: a call queued
\* before that may have failed (failed), otherwise the scan panics.
show_panics(content, failed) ==
    LET done == IF failed = 0 THEN Len(content) ELSE failed - 1
    IN  /\ failed <= Len(content)
        /\ calls' = show_issued(content, failed)
        /\ terminal' = terminal_calls(terminal, SubSeq(content, 1, done))
        /\ panicked' = (failed = 0)
        /\ last' = Call("show", FALSE, [mode |-> show_mode, failed |-> failed])
        /\ nops' = nops - 1
        /\ nerrors' = IF failed = 0 THEN nerrors ELSE nerrors - 1
        /\ UNCHANGED <<screen_vars, overflow_checks>>

\* A bound on the backend calls of one show(): one SetColors, at most three
\* calls a cell, and the four that follow the content.
max_calls == 3 * Len(new_screen) + 5

show ==
    /\ enabled
    /\ LET content == show_content IN
       \E failed \in 0..(IF nerrors > 0 THEN max_calls ELSE 0) :
          IF content.panic
          THEN show_panics(content.calls, failed)
          ELSE show_returns(content.calls, failed)

---------------------------------------------------------------------------
(* The screen after Screen::new(), and its public calls *)

Init ==
    /\ \E size \in InitSizes :
          /\ width = size[1]
          /\ height = size[2]
          /\ new_screen = filled(size[1] * size[2], EMPTY_CELL)
          /\ cur_screen = filled(size[1] * size[2], EMPTY_CELL)
          /\ terminal = Terminal(filled(size[1] * size[2], EMPTY_CELL))
    /\ cursor = ZERO
    /\ stored_cursor = ZERO
    /\ force_redraw = FALSE
    /\ fg_color = "Reset"
    /\ bg_color = "Reset"
    /\ new_cursor_style = "DefaultUserShape"
    /\ cur_cursor_style = "DefaultUserShape"
    /\ new_cursor_visibility = TRUE
    /\ cur_cursor_visibility = TRUE
    /\ windows = << >>
    /\ overflow_checks \in BOOLEAN
    /\ panicked = FALSE
    /\ calls = << >>
    /\ last = NoCall
    /\ nops = MaxOps
    /\ nerrors = MaxErrors

Next ==
    \/ \E x, y, w, h \in Args16 : begin_window(x, y, w, h)
    \/ end_window
    \/ \E x, y \in Args16 : move_to(x, y)
    \/ save_cursor
    \/ restore_cursor
    \/ \E ty \in ClearTypes : clear(ty)
    \/ \E msg \in Texts : print(msg)
    \/ \E c \in Chars : print_char(c)
    \/ \E fg, bg \in Colors : set_colors(fg, bg)
    \/ clear_colors
    \/ \E style \in CursorStyles : set_cursor_style(style)
    \/ \E visibility \in BOOLEAN : set_cursor_visibility(visibility)
    \/ \E size \in ResizeSizes, fill \in TerminalFills :
          resize(size[1], size[2], fill)
    \/ show

Spec == Init /\ [][Next]_vars

---------------------------------------------------------------------------
(* Rendering alone: show() called on a screen that earlier calls have     *)
(* filled.  Every front grid over FrontCells is one that print, move_to   *)
(* and set_colors calls build; every back grid over BackCells is one an   *)
(* earlier show() stored; a set force_redraw flag is one an earlier       *)
(* resize() to the same size left.  show() does no u16 arithmetic, so the *)
(* build is the default one.                                               *)

\* Number of show() calls in one behaviour of SpecRender.
MaxShows == 2

RenderSizes == {<<2, 2>>, <<3, 1>>}

FrontCells ==
    {EMPTY_CELL, Cell("Reset", "Reset", "a"), Cell("Red", "Reset", "b"),
     Cell("Reset", "Red", "c")}

BackCells == {EMPTY_CELL, Cell("Red", "Reset", "b")}

InitRender ==
    /\ \E size \in RenderSizes :
          /\ width = size[1]
          /\ height = size[2]
          /\ new_screen \in [1..(size[1] * size[2]) -> FrontCells]
          /\ cur_screen \in [1..(size[1] * size[2]) -> BackCells]
          /\ cursor = Point(size[1] - 1, size[2] - 1)
    /\ force_redraw \in BOOLEAN
    \* the terminal shows what the latest show() wrote; after a resize it
    \* may show anything
    /\ terminal \in {Terminal(cur_screen)} \cup
                     {Terminal(filled(Len(cur_screen), GarbageCell)) : b \in {force_redraw} \ {FALSE}}
    /\ stored_cursor = ZERO
    /\ fg_color = "Reset"
    /\ bg_color = "Reset"
    \* a cursor shape and a visibility the terminal has not been told yet
    /\ new_cursor_style = "SteadyBar"
    /\ new_cursor_visibility = FALSE
    /\ cur_cursor_style = "DefaultUserShape"
    /\ cur_cursor_visibility = TRUE
    /\ windows = << >>
    /\ overflow_checks = TRUE
    /\ panicked = FALSE
    /\ calls = << >>
    /\ last = NoCall
    /\ nops = MaxShows
    /\ nerrors = MaxErrors

NextRender == show

SpecRender == InitRender /\ [][NextRender]_vars

---------------------------------------------------------------------------
(* Windows alone: begin_window and end_window on a new screen. *)

NextWindows ==
    \/ \E x, y, w, h \in Args16 : begin_window(x, y, w, h)
    \/ end_window

SpecWindows == Init /\ [][NextWindows]_vars

---------------------------------------------------------------------------
(* Editing alone: the calls that write the front grid, move the cursor or *)
(* change the window stack, on a new screen that is never resized.        *)

NextEdit ==
    \/ \E x, y, w, h \in Args16 : begin_window(x, y, w, h)
    \/ end_window
    \/ \E x, y \in Args16 : move_to(x, y)
    \/ save_cursor
    \/ restore_cursor
    \/ \E ty \in ClearTypes : clear(ty)
    \/ \E msg \in Texts : print(msg)
    \/ \E c \in Chars : print_char(c)

SpecEdit == Init /\ [][NextEdit]_vars

---------------------------------------------------------------------------
(* Properties *)

\* The whole grid as a rectangle.
grid_bounds == WindowBounds(0, 0, width, height)

\* Rectangle inner lies within rectangle outer.
contained(inner, outer) ==
    /\ inner.x >= outer.x
    /\ inner.y >= outer.y
    /\ inner.x + inner.width <= outer.x + outer.width
    /\ inner.y + inner.height <= outer.y + outer.height

\* The cell (x, y) lies in the rectangle.
inside(rect, x, y) ==
    /\ x >= rect.x /\ x < rect.x + rect.width
    /\ y >= rect.y /\ y < rect.y + rect.height

\* The rectangle beneath window number i of the stack.
parent_of(i) == IF i = 1 THEN grid_bounds ELSE windows[i - 1]

\* The active window is a non-empty rectangle of the grid and the cursor a
\* position of it.
cursor_in_window_in_grid ==
    LET window == get_current_window IN
    /\ window.width >= 1
    /\ window.height >= 1
    /\ contained(window, grid_bounds)
    /\ cursor.x < window.width
    /\ cursor.y < window.height

\* The characters of a grid.
chars_of(grid) == [i \in 1..Len(grid) |-> grid[i].c]

(* C1: after any sequence of begin_window and end_window calls on a grid   *)
(* that is not resized, every window of the stack lies within the window   *)
(* beneath it, the outermost within the grid.                              *)
C1_WindowsContained ==
    \A i \in 1..Len(windows) : contained(windows[i], parent_of(i))

(* C4: resize(w2, h2) of a w1 x h1 grid, all four at least 1, leaves the   *)
(* old front cell at every (x, y) with x < min(w1, w2), y < min(h1, h2)    *)
(* and the EMPTY cell everywhere else.                                     *)
C4_ResizeKeepsTopLeft ==
    [][ (/\ last'.op = "resize" /\ last'.ok
         /\ width >= 1 /\ height >= 1 /\ width' >= 1 /\ height' >= 1)
        => /\ Len(new_screen') = width' * height'
           /\ \A x \in 0..(width' - 1), y \in 0..(height' - 1) :
                 new_screen'[y * width' + x + 1] =
                    IF x < Min(width, width') /\ y < Min(height, height')
                    THEN new_screen[y * width + x + 1]
                    ELSE EMPTY_CELL ]_vars

\* A 3 x 2 grid showing "gbc" over "def" has been resized to 2 x 3.
C4_Witness ==
    /\ last.op = "resize" /\ last.ok
    /\ width = 2 /\ height = 3
    /\ chars_of(new_screen) = <<"g", "b", "d", "e", " ", " ">>

\* What print is to do: every character but the newline goes to the cell
\* (window.x + col, window.y + row); a newline, or a character written in
\* the window's last column, continues in column 0 of the next row, after
\* the window's last row in its first.
RECURSIVE claimed_print(_, _, _, _, _)
claimed_print(msg, window, col, row, grid) ==
    IF msg = << >> THEN grid
    ELSE IF Head(msg) = "\n"
    THEN claimed_print(Tail(msg), window, 0, (row + 1) % window.height, grid)
    ELSE LET index == (window.y + row) * width + window.x + col
             written == [grid EXCEPT ![index + 1] =
                             Cell(fg_color, bg_color, Head(msg))]
         IN  IF col + 1 >= window.width
             THEN claimed_print(Tail(msg), window, 0, (row + 1) % window.height,
                                written)
             ELSE claimed_print(Tail(msg), window, col + 1, row, written)

C10_ClearAllInsideWindow ==
    [][ (/\ last'.op = "clear" /\ last'.arg = "All"
         /\ get_current_window.width >= 1
         /\ get_current_window.height >= 1
         /\ contained(get_current_window, grid_bounds))
        => /\ ~panicked'
           /\ \A x \in 0..(width - 1), y \in 0..(height - 1) :
                 new_screen'[y * width + x + 1] =
                    IF inside(get_current_window, x, y) THEN EMPTY_CELL
                    ELSE new_screen[y * width + x + 1] ]_vars

\* The text of the Print calls of cs, in emission order.
RECURSIVE printed(_)
printed(cs) ==
    IF cs = << >> THEN << >>
    ELSE (IF Head(cs).op = "Print" THEN Head(cs).text ELSE << >>)
             \o printed(Tail(cs))

\* The positions of the calls of cs that are op calls.
calls_of(cs, op) == {k \in 1..Len(cs) : cs[k].op = op}

\* The number of grid cells that differ between front and back.
differing == Cardinality({i \in 1..Len(new_screen) : new_screen[i] # cur_screen[i]})

(* C2: a successful show() leaves every terminal cell (character,          *)
(* foreground, background) equal to the front cell at its position, when   *)
(* the terminal showed the back grid before the call, or, whatever it      *)
(* showed, when the force-redraw flag was set.                             *)
C2_TerminalShowsFront ==
    [][ (/\ last'.op = "show" /\ last'.ok
         /\ (force_redraw \/ terminal.cells = cur_screen))
        => terminal'.cells = new_screen ]_vars

\* An incremental show() has written two runs or more, in more than one
\* color pair, to a terminal that showed the back grid.
C2_Witness ==
    /\ last.op = "show" /\ last.ok /\ last.arg.mode = "incremental"
    /\ last.prev.op = "new"
    /\ Cardinality(calls_of(calls, "Print")) >= 2
    /\ terminal.cells = new_screen
    /\ \E i, j \in 1..Len(new_screen) :
          new_screen[i].bg_color = "Red" /\ new_screen[j].fg_color = "Red"

(* C3: a show() that follows a successful show() with no call in between   *)
(* issues no Print call, after an incremental and after a full first       *)
(* show().                                                                 *)
C3_SecondShowPrintsNothing ==
    [][ (last.op = "show" /\ last.ok /\ last'.op = "show")
        => calls_of(calls', "Print") = {} ]_vars

\* The second of two successful show() calls has returned; the first had
\* a cell to write that no back grid holds.
C3_Witness ==
    /\ last.op = "show" /\ last.ok
    /\ last.prev.op = "show" /\ last.prev.ok
    /\ calls_of(calls, "Print") = {}
    /\ \E i \in 1..Len(new_screen) : new_screen[i] \notin BackCells

\* The color pair of a cell.
colors_of(cell) == <<cell.fg_color, cell.bg_color>>

\* The scan positions at which the color pair of the cell differs from the
\* pair of the run in progress: of the cell before, of Reset/Reset at 0.
color_changes ==
    {i \in 0..(Len(new_screen) - 1) :
        colors_of(new_screen[i + 1]) #
            (IF i = 0 THEN <<"Reset", "Reset">> ELSE colors_of(new_screen[i]))}

\* The scan position at which the Print call number k of cs starts.
start_of(cs, k) == Len(printed(SubSeq(cs, 1, k - 1)))

(* C5: the calls of a successful show() in full-redraw mode: the Print     *)
(* texts concatenated are the front grid's characters in row-major order;  *)
(* every Print follows a MoveTo to its run's first cell, that one the      *)
(* SetColors of the run's colors; a run ends and a SetColors is issued at  *)
(* exactly the positions where the color pair changes.                     *)
C5_FullRedrawRuns ==
    [][ (last'.op = "show" /\ last'.ok /\ force_redraw)
        => /\ printed(calls') = chars_of(new_screen)
           /\ \A k \in calls_of(calls', "Print") :
                 LET s == start_of(calls', k) IN
                 /\ k > 2
                 /\ calls'[k].text # << >>
                 /\ calls'[k - 1] = MoveTo(s % width, s \div width)
                 /\ calls'[k - 2] = SetColors(new_screen[s + 1].fg_color,
                                              new_screen[s + 1].bg_color)
           /\ {start_of(calls', k) : k \in calls_of(calls', "Print")} \ {0}
                 = color_changes \ {0}
           /\ Cardinality(calls_of(calls', "SetColors"))
                 = 1 + Cardinality(color_changes) ]_vars

\* A full redraw has written three runs, one of them of two cells or more.
C5_Witness ==
    /\ last.op = "show" /\ last.ok /\ last.arg.mode = "full"
    /\ Cardinality(calls_of(calls, "Print")) = 3
    /\ \E k \in calls_of(calls, "Print") : Len(calls[k].text) >= 2

(* C7: right after a show() that returns success the back grid equals the  *)
(* front grid cell for cell and the force-redraw flag is false.            *)
C7_ShowSyncs ==
    [][ (last'.op = "show" /\ last'.ok)
        => (cur_screen' = new_screen' /\ force_redraw' = FALSE) ]_vars

\* A full redraw has succeeded: the flag was set, and is no more.
C7_Witness ==
    /\ last.op = "show" /\ last.ok /\ last.arg.mode = "full"
    /\ last.prev.op = "new"
    /\ cur_screen = new_screen
    /\ ~force_redraw
    /\ \E i \in 1..Len(cur_screen) : cur_screen[i] \notin BackCells

(* C8: a show() one of whose backend calls fails issues no call after that *)
(* one, and leaves the back grid and the force-redraw flag as they were.   *)
C8_FailedShowStops ==
    [][ (last'.op = "show" /\ ~last'.ok /\ ~panicked')
        => /\ last'.arg.failed >= 1
           /\ calls' = SubSeq(show_calls, 1, last'.arg.failed)
           /\ cur_screen' = cur_screen
           /\ force_redraw' = force_redraw ]_vars

\* A show() has failed at a Print call, with the flag set and the grids
\* apart.
C8_Witness ==
    /\ last.op = "show" /\ ~last.ok /\ ~panicked
    /\ calls # << >>
    /\ calls[Len(calls)].op = "Print"
    /\ force_redraw
    /\ cur_screen # new_screen

(* C9: resize sets the force-redraw flag, and no call but a show() that    *)
(* succeeds clears it: not a failed show(), not any other call.  The       *)
(* show() that succeeds with the flag set prints every cell of the grid    *)
(* and clears the flag; a show() that succeeds with the flag clear prints  *)
(* the cells that differ from the back grid and no other.                  *)
C9_ResizeForcesFullRedraw ==
    [][ /\ (last'.op = "resize" /\ last'.ok) => force_redraw'
        /\ (force_redraw /\ ~(last'.op = "show" /\ last'.ok)) => force_redraw'
        /\ (last'.op = "show" /\ last'.ok /\ force_redraw)
              => /\ Len(printed(calls')) = width * height
                 /\ printed(calls') = chars_of(new_screen)
                 /\ ~force_redraw'
        /\ (last'.op = "show" /\ last'.ok /\ ~force_redraw)
              => Len(printed(calls')) = differing ]_vars

\* The grid has been resized to 2 x 3; a show() has failed, the next has
\* succeeded and printed the six cells.
C9_Witness ==
    /\ last.op = "show" /\ last.ok /\ last.arg.mode = "full"
    /\ last.prev.op = "show" /\ ~last.prev.ok
    /\ width = 2 /\ height = 3
    /\ Len(printed(calls)) = 6

(* C11: clear(CurrentLine) sets to the EMPTY cell the front cells of the   *)
(* absolute row window.y + cursor.y in the columns window.x ..             *)
(* window.x + window.width - 1 of the active window, and changes no other  *)
(* cell, also for a window whose x origin is greater than 0.               *)
C11_ClearCurrentLineInsideWindow ==
    [][ (/\ last'.op = "clear" /\ last'.arg = "CurrentLine"
         /\ cursor_in_window_in_grid)
        => /\ ~panicked'
           /\ \A x \in 0..(width - 1), y \in 0..(height - 1) :
                 new_screen'[y * width + x + 1] =
                    IF /\ y = get_current_window.y + cursor.y
                       /\ x >= get_current_window.x
                       /\ x < get_current_window.x + get_current_window.width
                    THEN EMPTY_CELL
                    ELSE new_screen[y * width + x + 1] ]_vars

(* C12: in every state (any window stack, any cursor position of the       *)
(* active window, any active colors), for every character c, the newline   *)
(* too, print_char(c) and print of the one-character string c leave the    *)
(* same front grid and the same cursor.                                    *)
C12_PrintCharAsPrint ==
    (~panicked /\ cursor_in_window_in_grid)
    => \A c \in Chars :
          /\ print_result(<<c>>).panic = print_char_result(c).panic
          /\ print_result(<<c>>).grid = print_char_result(c).grid
          /\ print_result(<<c>>).cursor = print_char_result(c).cursor

\* The window beneath the top of the stack in the next state.
parent_after ==
    IF Len(windows') = 0 THEN WindowBounds(0, 0, width', height')
    ELSE windows'[Len(windows')]

(* C13: after end_window() has popped a window, the cursor and the stored  *)
(* cursor, read relative to the parent window, designate the absolute grid *)
(* cells they designated relative to the popped window before the call, at *)
(* every nesting depth (the popped window a non-empty rectangle of the     *)
(* grid holding the cursor, its parent non-empty).                         *)
C13_EndWindowKeepsAbsolute ==
    [][ (/\ last'.op = "end_window" /\ last'.ok /\ Len(windows) >= 1
         /\ cursor_in_window_in_grid
         /\ parent_after.width >= 1 /\ parent_after.height >= 1)
        => LET popped == windows[Len(windows)] IN
           /\ parent_after.x + cursor'.x = popped.x + cursor.x
           /\ parent_after.y + cursor'.y = popped.y + cursor.y
           /\ parent_after.x + stored_cursor'.x = popped.x + stored_cursor.x
           /\ parent_after.y + stored_cursor'.y = popped.y + stored_cursor.y ]_vars

\* No u16 sum of the window's origin, its extent and the cursor comes near
\* the largest u16: a print, print_char or clear call made in this state
\* panics for an index or a range out of the grid only.
coordinates_small ==
    LET window == get_current_window IN
    /\ window.x + window.width + cursor.x < U16Max
    /\ window.y + window.height + cursor.y < U16Max
    /\ window.x + window.height + cursor.y < U16Max

(* C14: on a grid of width and height at least 1 that is never resized,    *)
(* after any begin_window, end_window, move_to, save_cursor,               *)
(* restore_cursor, print, print_char and clear calls, no print, print_char *)
(* or clear call indexes the front grid outside [0, width * height).       *)
C14_NoOutOfBounds ==
    [][ (/\ last'.op \in {"print", "print_char", "clear"}
         /\ width >= 1 /\ height >= 1
         /\ coordinates_small)
        => ~panicked' ]_vars

\* The grid positions that the Print call number k of cs writes, from the
\* MoveTo before it on.
print_cells(cs, k) ==
    {cs[k - 1].y * width + cs[k - 1].x + j : j \in 0..(Len(cs[k].text) - 1)}

\* The grid positions at which front and back differ.
differing_cells == {i \in 0..(Len(new_screen) - 1) : new_screen[i + 1] # cur_screen[i + 1]}

C16_NoSetColorsWithoutDifference ==
    [][ (/\ last'.op = "show" /\ last'.ok /\ ~force_redraw
         /\ differing_cells = {})
        => calls_of(calls', "SetColors") = {} ]_vars

(* C17: right after resize(w, h) every cell of the back grid is the EMPTY  *)
(* cell, whatever the front grid has kept, and the force-redraw flag is    *)
(* set.                                                                    *)
C17_ResizeEmptiesBack ==
    [][ (last'.op = "resize" /\ last'.ok)
        => /\ Len(cur_screen') = width' * height'
           /\ \A i \in 1..Len(cur_screen') : cur_screen'[i] = EMPTY_CELL
           /\ force_redraw' ]_vars

(* C18: a successful show() ends with a MoveTo to the absolute grid cell   *)
(* of the cursor (the active window's origin plus the window-relative      *)
(* cursor, where the next print_char writes) and then a flush, also with a *)
(* sub-window active.                                                      *)
C18_ShowEndsAtCursor ==
    [][ (last'.op = "show" /\ last'.ok /\ cursor_in_window_in_grid)
        => /\ Len(calls') >= 2
           /\ calls'[Len(calls')] = Flush
           /\ calls'[Len(calls') - 1] =
                 MoveTo(get_current_window.x + cursor.x,
                        get_current_window.y + cursor.y) ]_vars

\* The calls of cs that show or hide the cursor.
show_hide_calls(cs) == calls_of(cs, "Show") \cup calls_of(cs, "Hide")

\* The content writes among the calls of cs.
content_calls(cs) ==
    calls_of(cs, "SetColors") \cup calls_of(cs, "Print")

(* C19: show(), in either mode, issues a cursor-shape call exactly when    *)
(* the desired shape differs from the last emitted one, and a show/hide    *)
(* call exactly when the desired visibility differs from the last emitted  *)
(* one, each once and after every content write; after a successful show() *)
(* last emitted equals desired, and a show() repeated at once issues       *)
(* neither call.                                                           *)
C19_CursorCallsOnChange ==
    [][ (last'.op = "show" /\ last'.ok)
        => /\ calls_of(calls', "SetCursorStyle") # {}
                 <=> new_cursor_style # cur_cursor_style
           /\ show_hide_calls(calls') # {}
                 <=> new_cursor_visibility # cur_cursor_visibility
           /\ Cardinality(calls_of(calls', "SetCursorStyle")) <= 1
           /\ Cardinality(show_hide_calls(calls')) <= 1
           /\ \A k \in calls_of(calls', "SetCursorStyle") :
                 calls'[k] = SetCursorStyle(new_cursor_style)
           /\ \A k \in show_hide_calls(calls') :
                 calls'[k] = ShowHide(new_cursor_visibility)
           /\ \A k \in calls_of(calls', "SetCursorStyle") \cup show_hide_calls(calls'),
                 j \in content_calls(calls') : j < k
           /\ cur_cursor_style' = new_cursor_style'
           /\ cur_cursor_visibility' = new_cursor_visibility'
           /\ (last.op = "show" /\ last.ok)
                 => /\ calls_of(calls', "SetCursorStyle") = {}
                    /\ show_hide_calls(calls') = {} ]_vars

\* A full redraw has told the terminal the bar shape and hidden the cursor,
\* after writing the grid.
C19_Witness ==
    /\ last.op = "show" /\ last.ok /\ last.arg.mode = "full"
    /\ last.prev.op = "new"
    /\ calls_of(calls, "SetCursorStyle") # {}
    /\ calls_of(calls, "Hide") # {}
    /\ calls_of(calls, "Print") # {}
    /\ cur_cursor_style = "SteadyBar"
    /\ ~cur_cursor_visibility

(* C20: begin_window, move_to, restore_cursor and resize overflow no u16,  *)
(* for any u16 arguments in any state: in the build that checks overflow   *)
(* none of them panics, and the window begin_window pushes has a width and *)
(* a height of at least 1.                                                 *)
C20_GeometryNeverOverflows ==
    [][ (/\ last'.op \in {"begin_window", "move_to", "restore_cursor", "resize"}
         /\ overflow_checks)
        => /\ ~panicked'
           /\ last'.op = "begin_window"
                 => /\ windows'[Len(windows')].width >= 1
                    /\ windows'[Len(windows')].height >= 1 ]_vars

(* C21: in every state the public calls reach, the cursor is a position of *)
(* the active window: cursor.x < window.width and cursor.y <                *)
(* window.height (the active window a non-empty rectangle of the grid).    *)
C21_CursorInsideWindow ==
    (/\ ~panicked
     /\ get_current_window.width >= 1
     /\ get_current_window.height >= 1
     /\ contained(get_current_window, grid_bounds))
    => /\ cursor.x < get_current_window.width
       /\ cursor.y < get_current_window.height
====
